---- MODULE Spec2Model ----
(***************************************************************************)
(* MultiPathGenerator<SG> of ql/MonteCarlo/multipathgenerator.hpp: the     *)
(* constructor, next() and antithetic().                                   *)
(*                                                                         *)
(* Numbers.  A double is modelled by an exact extended rational <<n, d>>   *)
(* with d >= 0: d > 0 is the rational n/d in lowest terms, <<1, 0>> and    *)
(* <<-1, 0>> are +inf and -inf, <<0, 0>> is NaN (the IEEE results of x/0). *)
(* QL_SQRT is the exact root; the inputs are chosen so that every radicand *)
(* the code forms is a perfect square.  Asset levels are carried by their  *)
(* natural logarithm, so that level *= QL_EXP(e) is the exact addition of  *)
(* e; a diffusion process reads and reports levels in the same form.       *)
(*                                                                         *)
(* Two generator instances (Gens) are modelled side by side; Spec drives   *)
(* instance 1 alone, SpecPair builds both from the same arguments.         *)
(***************************************************************************)
EXTENDS Integers, Sequences, FiniteSets, TLC

\* ------------------------------------------------------------- bounds
MaxAssets == 3
MaxSteps == 2
MaxCalls == 2

Gens == {1, 2}

\* Size is an unsigned integer type: its arithmetic wraps.
SizeModulus == 2^16

SizeSub(a, b) == (a - b + SizeModulus) % SizeModulus

SizeMul(a, b) == (a * b) % SizeModulus

\* ------------------------------------------------------------- doubles
Sign(n) == IF n > 0 THEN 1 ELSE IF n < 0 THEN -1 ELSE 0

Abs(n) == IF n < 0 THEN -n ELSE n

RECURSIVE GCD(_, _)
GCD(a, b) == IF b = 0 THEN a ELSE GCD(b, a % b)

RNorm(n, d) ==
    IF d = 0 THEN <<Sign(n), 0>>
    ELSE LET k == GCD(Abs(n), d) IN <<n \div k, d \div k>>

R(n) == <<n, 1>>

RNeg(x) == <<-x[1], x[2]>>

RAdd(x, y) ==
    IF x[2] = 0 /\ y[2] = 0
    THEN (IF x = y THEN x ELSE <<0, 0>>)
    ELSE RNorm(x[1] * y[2] + y[1] * x[2], x[2] * y[2])

RMul(x, y) == RNorm(x[1] * y[1], x[2] * y[2])

RDiv(x, y) ==
    IF y[1] < 0 THEN RNorm(-(x[1] * y[2]), -(x[2] * y[1]))
    ELSE RNorm(x[1] * y[2], x[2] * y[1])

\* x > 0 as a double comparison: false for NaN.
RPos(x) == x[1] > 0

IsSquare(v) == \E r \in 0..v : r * r = v

Sqrt(v) == CHOOSE r \in 0..v : r * r = v

\* level * QL_EXP(e), on levels carried by their logarithm.
MulExp(level, e) == RAdd(level, e)

\* ------------------------------------------------------------- TimeGrid
At(grid, k) == grid[k + 1]

Dt(grid, k) == At(grid, k + 1) - At(grid, k)

GridKinds == {"unit", "growing"}

Grid(n, kind) ==
    [k \in 1..n |-> IF kind = "unit" THEN k - 1 ELSE ((k - 1) * (k + 2)) \div 2]

Grids == {Grid(n, kind) : n \in 0..(MaxSteps + 1), kind \in GridKinds}

\* ------------------------------------------------------------- DiffusionProcess
ProcKinds == {"flat", "local"}

X0(p) == IF p = "flat" THEN R(1) ELSE R(0)

Drift(p, t, x) == IF p = "flat" THEN 1 ELSE (IF RPos(x) THEN -t ELSE t)

Variance(p, t, x, dt) ==
    IF p = "flat" THEN 4 * dt * dt
    ELSE (IF RPos(x) THEN dt * dt ELSE 9 * t * t * dt * dt)

ProcPatterns == {"flat", "local", "mixed"}

ProcList(len, pat) ==
    [j \in 1..len |-> IF pat = "mixed"
                      THEN (IF j % 2 = 1 THEN "local" ELSE "flat")
                      ELSE pat]

\* ------------------------------------------------------------- Matrix
FactorKinds == {"chol", "wide", "zero", "tail"}

CholEntry(r, c) ==
    IF r = 0 THEN (IF c = 0 THEN 5 ELSE 0)
    ELSE IF c = r - 1 THEN 3 ELSE IF c = r THEN 4 ELSE 0

WideEntry(r, c) ==
    IF r = 0 THEN (IF c = 0 THEN 3 ELSE IF c = 1 THEN 4 ELSE IF c = 2 THEN 12 ELSE 0)
    ELSE IF r = 1 THEN (IF c = 0 THEN 4 ELSE IF c = 1 THEN 3 ELSE 0)
    ELSE IF c = r THEN 5 ELSE 0

Entry(kind, r, c) ==
    IF kind = "chol" THEN CholEntry(r, c)
    ELSE IF kind = "wide" THEN WideEntry(r, c)
    ELSE IF kind = "zero" THEN (IF r = 0 THEN 0 ELSE CholEntry(r, c))
    ELSE (IF r = 0 THEN (IF c = 2 THEN 5 ELSE 0) ELSE CholEntry(r, c))

\* The factor matrixSqrt(covariance) returns: as many rows as the covariance.
Factor(rows, cols, kind) ==
    [rows |-> rows, columns |-> cols,
     data |-> [r \in 1..rows |-> [c \in 1..cols |-> Entry(kind, r - 1, c - 1)]]]

RECURSIVE RowDot(_, _, _)
RowDot(row, v, c) == IF c = 0 THEN 0 ELSE row[c] * v[c] + RowDot(row, v, c - 1)

\* Matrix * Array.
MatVec(m, v) == [r \in 1..m.rows |-> RowDot(m.data[r], v, m.columns)]

\* ------------------------------------------------------------- random source
Seeds == {0, 1}

Pattern(p, k) ==
    IF p = 0 THEN k ELSE IF p = 1 THEN -k ELSE (k % 3) - 1

\* The pos-th sample of a source of the given dimension and seed.
SourceSample(seed, pos, dim) ==
    [value |-> [k \in 1..dim |-> Pattern((seed + pos) % 3, k)],
     weight |-> 2 + ((seed + pos) % 2)]

\* ------------------------------------------------------------- state
VARIABLES
    status,           \* "unbuilt", "failed", "idle", "running", "fault"
    error,            \* the QL_REQUIRE that failed, "" if none
    ctorArgs,         \* the constructor's arguments (sizes, drifts, times)
    diffusionProcs_,  \* member: the diffusion processes
    numAssets_,       \* member
    sqrtCovariance_,  \* member
    generator_,       \* member: the sequence generator and its position
    next_,            \* member: the Sample<MultiPath> handed out
    sequence_,        \* next(): the sequence drawn by this call
    asset,            \* next(): the working levels
    temp,             \* next(): the shock vector of the last step
    timeGrid,         \* next(): the local copy of the time grid
    loopI,            \* next(): the step index i
    garbage,          \* what this call's out-of-bounds reads return
    ops,              \* the public methods entered so far
    reads,            \* per step of this call, the sequence indices read
    written,          \* the entries of next_ this call has written
    oob,              \* the out-of-bounds accesses performed so far
    divZero,          \* the rows whose shock was divided by a zero norm
    shocks            \* per step of this call, the shock vector used

vars == <<status, error, ctorArgs, diffusionProcs_, numAssets_, sqrtCovariance_,
          generator_, next_, sequence_, asset, temp, timeGrid, loopI, garbage,
          ops, reads, written, oob, divZero, shocks>>

NoGarbage == [s01 |-> 0, proc |-> "flat", grid |-> <<>>]

NoArgs == [rows |-> 0, columns |-> 0, drifts |-> <<>>, times |-> <<>>,
           dimension |-> 0, procs |-> 0]

Init ==
    /\ status = [g \in Gens |-> "unbuilt"]
    /\ error = [g \in Gens |-> ""]
    /\ ctorArgs = [g \in Gens |-> NoArgs]
    /\ diffusionProcs_ = [g \in Gens |-> <<>>]
    /\ numAssets_ = [g \in Gens |-> 0]
    /\ sqrtCovariance_ = [g \in Gens |-> Factor(0, 0, "chol")]
    /\ generator_ = [g \in Gens |-> [dimension |-> 0, seed |-> 0, pos |-> 0]]
    /\ next_ = [g \in Gens |-> [value |-> <<>>, weight |-> 1]]
    /\ sequence_ = [g \in Gens |-> [value |-> <<>>, weight |-> 0]]
    /\ asset = [g \in Gens |-> <<>>]
    /\ temp = [g \in Gens |-> <<>>]
    /\ timeGrid = [g \in Gens |-> <<>>]
    /\ loopI = [g \in Gens |-> 0]
    /\ garbage = [g \in Gens |-> NoGarbage]
    /\ ops = [g \in Gens |-> <<>>]
    /\ reads = [g \in Gens |-> <<>>]
    /\ written = [g \in Gens |-> {}]
    /\ oob = [g \in Gens |-> {}]
    /\ divZero = [g \in Gens |-> {}]
    /\ shocks = [g \in Gens |-> <<>>]

\* ------------------------------------------------------------- constructor
\* The QL_REQUIREs, in the order of the code; "" when all pass.
CtorErrorNoTimesCheck(a) ==
    IF a.dimension # SizeMul(a.rows, SizeSub(Len(a.times), 1)) THEN "dimension"
    ELSE IF Len(a.drifts) # a.rows THEN "drifts"
    ELSE IF a.factor.columns # a.rows THEN "columns"
    ELSE ""

CtorError(a) ==
    IF a.dimension # SizeMul(a.rows, SizeSub(Len(a.times), 1)) THEN "dimension"
    ELSE IF Len(a.drifts) # a.rows THEN "drifts"
    ELSE IF a.factor.columns # a.rows THEN "columns"
    ELSE IF ~(Len(a.times) > 1) THEN "times"
    ELSE ""

\* MultiPath(covariance.rows(), times): one Path per asset over the grid; the
\* increment arrays hold whatever the allocation held (fill).
MultiPath(rows, times, fill) ==
    [j \in 1..rows |->
        [timeGrid |-> times,
         drift |-> [k \in 1..(Len(times) - 1) |-> R(fill)],
         diffusion |-> [k \in 1..(Len(times) - 1) |-> R(fill)]]]

\* The constructor's loop: drift[j][i] = drifts[j] * dt(i).
PrefillSkipLast(paths, drifts, times) ==
    [j \in 1..Len(paths) |->
        [paths[j] EXCEPT !.drift =
            [k \in 1..(Len(times) - 1) |->
                IF k < Len(times) - 1 THEN R(drifts[j] * Dt(times, k - 1))
                ELSE paths[j].drift[k]]]]

Prefill(paths, drifts, times) ==
    [j \in 1..Len(paths) |->
        [paths[j] EXCEPT !.drift =
            [k \in 1..(Len(times) - 1) |-> R(drifts[j] * Dt(paths[j].timeGrid, k - 1))]]]

ArgsShape(a) ==
    [rows |-> a.rows, columns |-> a.factor.columns, drifts |-> a.drifts,
     times |-> a.times, dimension |-> a.dimension, procs |-> Len(a.diffusionProcs)]

Construct(G, a) ==
    LET ok == CtorError(a) = ""
        set(f, v) == [g \in Gens |-> IF g \in G THEN v ELSE f[g]]
    IN
    /\ G # {}
    /\ \A g \in G : status[g] = "unbuilt"
    /\ status' = set(status, IF ok THEN "idle" ELSE "failed")
    /\ error' = set(error, CtorError(a))
    /\ ctorArgs' = set(ctorArgs, ArgsShape(a))
    /\ diffusionProcs_' = set(diffusionProcs_, IF ok THEN a.diffusionProcs ELSE <<>>)
    /\ numAssets_' = set(numAssets_, IF ok THEN a.rows ELSE 0)
    /\ sqrtCovariance_' = set(sqrtCovariance_, IF ok THEN a.factor ELSE Factor(0, 0, "chol"))
    /\ generator_' = set(generator_,
                         IF ok THEN [dimension |-> a.dimension, seed |-> a.seed, pos |-> 0]
                         ELSE [dimension |-> 0, seed |-> 0, pos |-> 0])
    /\ next_' = set(next_,
                    IF ok
                    THEN [value |-> Prefill(MultiPath(a.rows, a.times, a.fill), a.drifts, a.times),
                          weight |-> 1]
                    ELSE [value |-> <<>>, weight |-> 1])
    /\ UNCHANGED <<sequence_, asset, temp, timeGrid, loopI, garbage, ops, reads,
                   written, oob, divZero, shocks>>

\* ------------------------------------------------------------- inputs
Fills == {0, 7}

Dims == (0..(MaxAssets * MaxSteps)) \cup {SizeModulus - k : k \in 1..MaxAssets}

DriftVec(len) == [j \in 1..len |-> 2 * j - 3]

Details == [kind : FactorKinds, seed : Seeds, fill : Fills, pat : ProcPatterns]

DefaultDetail == [kind |-> "chol", seed |-> 0, fill |-> 0, pat |-> "flat"]

MkArgs(s, d) ==
    [diffusionProcs |-> ProcList(s[6], d.pat),
     drifts |-> DriftVec(s[3]),
     rows |-> s[1],
     factor |-> Factor(s[1], s[2], d.kind),
     times |-> s[4],
     dimension |-> s[5],
     seed |-> d.seed,
     fill |-> d.fill]

\* A construction that fails never looks at the contents of its arguments.
DetailsFor(s) ==
    IF CtorError(MkArgs(s, DefaultDetail)) = "" THEN Details ELSE {DefaultDetail}

\* Some generators of G are constructed from the same arguments.
ConstructAny(G, fills, seeds) ==
    \E rows \in 0..MaxAssets, cols \in 0..MaxAssets, dl \in 0..MaxAssets,
       times \in Grids, dim \in Dims, pl \in 0..MaxAssets :
        \E d \in DetailsFor(<<rows, cols, dl, times, dim, pl>>) :
            /\ d.fill \in fills
            /\ d.seed \in seeds
            /\ Construct(G, MkArgs(<<rows, cols, dl, times, dim, pl>>, d))

\* ------------------------------------------------------------- next()
\* What the out-of-bounds reads of one call may return: the element past a
\* 1 x 1 factor, the process behind a handle past the end of diffusionProcs_,
\* the grid of the path past the end of an empty MultiPath.
GarbageVals == {0, 4, 12}

GarbageSet(g) ==
    LET n == numAssets_[g]
        m == sqrtCovariance_[g]
    IN [s01 : IF n = 1
              THEN {v \in GarbageVals : IsSquare(m.data[1][1] * m.data[1][1] + v * v)}
              ELSE {0},
        proc : IF Len(diffusionProcs_[g]) < n THEN ProcKinds ELSE {"flat"},
        grid : IF n = 0 THEN {t \in Grids : Len(t) \in 1..2} ELSE {<<>>}]

\* diffusionProcs_[j] (j from 1): the handle, or what lies past the vector.
ProcAt(g, j, grb) ==
    IF j <= Len(diffusionProcs_[g]) THEN diffusionProcs_[g][j] ELSE grb.proc

\* next_.value[0]: the first path, or what lies past an empty vector.
FirstPath(g, grb) ==
    IF numAssets_[g] >= 1 THEN next_[g].value[1]
    ELSE [timeGrid |-> grb.grid,
          drift |-> [k \in 1..(Len(grb.grid) - 1) |-> R(0)],
          diffusion |-> [k \in 1..(Len(grb.grid) - 1) |-> R(0)]]

\* sqrtCovariance_[r][c] (r, c from 0): row r starts r * columns elements into
\* the storage of rows * columns elements.
ReadS(m, r, c, grb) ==
    LET at == r * m.columns + c IN
    IF at < m.rows * m.columns
    THEN m.data[(at \div m.columns) + 1][(at % m.columns) + 1]
    ELSE grb.s01

\* sequence_.value[k] (k from 0).
ReadSeq(seq, k) == IF k < Len(seq.value) THEN seq.value[k + 1] ELSE 0

\* The out-of-bounds accesses of lines 116-120 and of one pass of the loop.
BeginOob(g) ==
    (IF Len(diffusionProcs_[g]) < numAssets_[g] THEN {"diffusionProcs_[j]"} ELSE {})
    \cup (IF numAssets_[g] = 0 THEN {"next_.value[0]"} ELSE {})

StepOob(g, offset) ==
    (IF Len(diffusionProcs_[g]) < numAssets_[g] THEN {"diffusionProcs_[j]"} ELSE {})
    \cup (IF numAssets_[g] = 0 THEN {"next_.value[0]", "temp[0]", "sqrtCovariance_[0][0]"} ELSE {})
    \cup (IF numAssets_[g] < 2
          THEN {"temp[1]", "sqrtCovariance_[0][1]", "sqrtCovariance_[1][0]",
                "sqrtCovariance_[1][1]"}
          ELSE {})
    \cup (IF offset + numAssets_[g] > Len(sequence_[g].value) THEN {"sequence_.value"} ELSE {})

\* generator_.nextSequence()
NextSequence(g) ==
    SourceSample(generator_[g].seed, generator_[g].pos, generator_[g].dimension)

\* asset[j] = diffusionProcs_[j]->x0() for every j.
InitialAssets(g, grb) == [j \in 1..numAssets_[g] |-> X0(ProcAt(g, j, grb))]

\* next_.weight = sequence_.weight
WeightKept(g, seq) == next_[g].weight

WeightOf(g, seq) == seq.weight

\* Lines 109-123, entered through the public method o with the sequence seq
\* drawn; fault: an out-of-bounds access ends the process.
Enter(g, o, seq, advance, grb, fault) ==
    /\ status[g] = "idle"
    /\ generator_[g].pos < MaxCalls
    /\ grb \in GarbageSet(g)
    /\ fault => BeginOob(g) # {}
    /\ status' = [status EXCEPT ![g] = IF fault THEN "fault" ELSE "running"]
    /\ sequence_' = [sequence_ EXCEPT ![g] = seq]
    /\ generator_' = [generator_ EXCEPT ![g].pos = @ + advance]
    /\ next_' = [next_ EXCEPT ![g].weight = WeightOf(g, seq)]
    /\ asset' = [asset EXCEPT ![g] = InitialAssets(g, grb)]
    /\ temp' = [temp EXCEPT ![g] = [j \in 1..numAssets_[g] |-> R(0)]]  \* overwritten before it is read
    /\ timeGrid' = [timeGrid EXCEPT ![g] = FirstPath(g, grb).timeGrid]
    /\ loopI' = [loopI EXCEPT ![g] = 0]
    /\ garbage' = [garbage EXCEPT ![g] = grb]
    /\ ops' = [ops EXCEPT ![g] = Append(@, o)]
    /\ reads' = [reads EXCEPT ![g] = <<>>]
    /\ written' = [written EXCEPT ![g] = {<<"weight", 0, 0>>}]
    /\ oob' = [oob EXCEPT ![g] = @ \cup BeginOob(g)]
    /\ shocks' = [shocks EXCEPT ![g] = <<>>]
    /\ UNCHANGED <<error, ctorArgs, diffusionProcs_, numAssets_, sqrtCovariance_, divZero>>

NextBegin(g, grb, fault) == Enter(g, "next", NextSequence(g), 1, grb, fault)

\* Size offset = i*numAssets_
OffsetUnscaled(g) == loopI[g]

Offset(g) == SizeMul(loopI[g], numAssets_[g])

\* std::copy of the block into temp, then temp = sqrtCovariance_ * temp.
Rotated(g, offset) ==
    MatVec(sqrtCovariance_[g], [k \in 1..numAssets_[g] |-> ReadSeq(sequence_[g], offset + k - 1)])

\* The radicand of lines 135-138 for row k (0 or 1).
Radicand(m, k, grb) ==
    ReadS(m, k, 0, grb) * ReadS(m, k, 0, grb) + ReadS(m, k, 1, grb) * ReadS(m, k, 1, grb)

\* Lines 134-138: temp[0] and temp[1] divided by the root of the radicand.
Normalized(g, v) ==
    [k \in 1..numAssets_[g] |->
        IF k <= 2
        THEN RDiv(R(v[k]), R(Sqrt(Radicand(sqrtCovariance_[g], k - 1, garbage[g]))))
        ELSE R(v[k])]

ZeroDivisors(g) ==
    {k \in 0..1 : k < numAssets_[g] /\ Radicand(sqrtCovariance_[g], k, garbage[g]) = 0}

\* Lines 140-141 for asset j at level x.
DriftIncrement(p, t, x, dt) == R(dt * Drift(p, t, x))

DiffusionIncrement(p, t, x, dt, shock) == RNeg(RMul(shock, R(Sqrt(Variance(p, t, x, dt)))))

\* The level the process of asset j is evaluated at in this step.
LevelAtX0(g, j) == X0(ProcAt(g, j, garbage[g]))

LevelRead(g, j) == asset[g][j]

\* next_.value[0].size()
LoopBound(g) == Len(FirstPath(g, garbage[g]).drift)

\* One pass of the loop of lines 124-145 (sqrt_dt of line 128 is never read).
NextStep(g, fault) ==
    LET n == numAssets_[g]
        k == loopI[g]
        offset == Offset(g)
        t == At(timeGrid[g], k + 1)
        dt == Dt(timeGrid[g], k)
        shock == Normalized(g, Rotated(g, offset))
        p(j) == ProcAt(g, j, garbage[g])
        dr == [j \in 1..n |-> DriftIncrement(p(j), t, LevelRead(g, j), dt)]
        df == [j \in 1..n |-> DiffusionIncrement(p(j), t, LevelRead(g, j), dt, shock[j])]
    IN
    /\ status[g] = "running"
    /\ k < LoopBound(g)
    /\ fault => StepOob(g, offset) # {}
    /\ status' = [status EXCEPT ![g] = IF fault THEN "fault" ELSE "running"]
    /\ oob' = [oob EXCEPT ![g] = @ \cup StepOob(g, offset)]
    /\ IF fault
       THEN UNCHANGED <<next_, asset, temp, loopI, reads, written, divZero, shocks>>
       ELSE /\ next_' = [next_ EXCEPT ![g].value =
                           [j \in 1..n |->
                               [@[j] EXCEPT !.drift[k + 1] = dr[j],
                                            !.diffusion[k + 1] = df[j]]]]
            /\ asset' = [asset EXCEPT ![g] =
                           [j \in 1..n |-> MulExp(asset[g][j], RAdd(dr[j], df[j]))]]
            /\ temp' = [temp EXCEPT ![g] = shock]
            /\ loopI' = [loopI EXCEPT ![g] = k + 1]
            /\ reads' = [reads EXCEPT ![g] =
                           Append(@, {x \in offset..(offset + n - 1) : TRUE})]
            /\ written' = [written EXCEPT ![g] =
                           @ \cup {<<"drift", j, k>> : j \in 1..n}
                             \cup {<<"diffusion", j, k>> : j \in 1..n}]
            /\ divZero' = [divZero EXCEPT ![g] = @ \cup ZeroDivisors(g)]
            /\ shocks' = [shocks EXCEPT ![g] = Append(@, shock)]
    /\ UNCHANGED <<error, ctorArgs, diffusionProcs_, numAssets_, sqrtCovariance_,
                   generator_, sequence_, timeGrid, garbage, ops>>

\* Line 147: return next_.
NextReturn(g) ==
    /\ status[g] = "running"
    /\ ~(loopI[g] < LoopBound(g))
    /\ status' = [status EXCEPT ![g] = "idle"]
    /\ UNCHANGED <<error, ctorArgs, diffusionProcs_, numAssets_, sqrtCovariance_,
                   generator_, next_, sequence_, asset, temp, timeGrid, loopI, garbage,
                   ops, reads, written, oob, divZero, shocks>>

\* ------------------------------------------------------------- antithetic()
\* The mirror of the last draw, taken without advancing the source.
MirroredSequence(g) ==
    [value |-> [k \in 1..Len(sequence_[g].value) |-> -sequence_[g].value[k]],
     weight |-> sequence_[g].weight]

\* The sequence an antithetic() call works on, and by how much the source
\* advances: antithetic() is `return next();`.
AntitheticMirrors(g) == <<MirroredSequence(g), 0>>

AntitheticDraw(g) == <<NextSequence(g), 1>>

AntitheticBegin(g, grb, fault) ==
    Enter(g, "antithetic", AntitheticDraw(g)[1], AntitheticDraw(g)[2], grb, fault)

\* ------------------------------------------------------------- specifications
Faults == BOOLEAN

ConstructOne == status[1] = "unbuilt" /\ ConstructAny({1}, Fills, Seeds)

Next ==
    \/ ConstructOne
    \/ \E grb \in GarbageSet(1), fault \in Faults : NextBegin(1, grb, fault)
    \/ \E grb \in GarbageSet(1), fault \in Faults : AntitheticBegin(1, grb, fault)
    \/ \E fault \in Faults : NextStep(1, fault)
    \/ NextReturn(1)

Spec == Init /\ [][Next]_vars

\* Two freshly constructed generators with identical arguments; the sequence
\* generator is passed by value, so each owns an identically seeded copy.
ConstructPair ==
    /\ status[1] = "unbuilt"
    /\ ConstructAny(Gens, {0}, {1})

\* The caller is one thread: a call runs to its end before the next starts.
\* Instance 2 is driven by the calls instance 1 was driven by.
NoneRunning == \A g \in Gens : status[g] # "running"

Turn(g, o) ==
    /\ NoneRunning
    /\ IF g = 1 THEN Len(ops[1]) = Len(ops[2])
       ELSE Len(ops[2]) < Len(ops[1]) /\ ops[1][Len(ops[2]) + 1] = o

NextPair ==
    \/ ConstructPair
    \/ \E g \in Gens : \E grb \in GarbageSet(g), fault \in Faults :
          Turn(g, "next") /\ NextBegin(g, grb, fault)
    \/ \E g \in Gens : \E grb \in GarbageSet(g), fault \in Faults :
          Turn(g, "antithetic") /\ AntitheticBegin(g, grb, fault)
    \/ \E g \in Gens, fault \in Faults : NextStep(g, fault)
    \/ \E g \in Gens : NextReturn(g)

SpecPair == Init /\ [][NextPair]_vars

\* ------------------------------------------------------------- properties
NumSteps(g) == Len(ctorArgs[g].times) - 1

Returned(g) == status[g] = "idle" /\ Len(ops[g]) > 0

InCall(g) == status[g] \in {"running", "idle"} /\ Len(ops[g]) > 0

LastOp(g) == ops[g][Len(ops[g])]

\* The sequence the source hands out at its n-th draw (n from 1).
Drawn(g, n) == SourceSample(generator_[g].seed, n - 1, generator_[g].dimension)

\* The assets that have a diffusion process.
Modelled(g) == {j \in 1..numAssets_[g] : j <= Len(diffusionProcs_[g])}

\* The level of asset j after the increments of steps 0..i-1 stored in next_.
RECURSIVE LevelAfter(_, _, _)
LevelAfter(g, j, i) ==
    IF i = 0 THEN X0(diffusionProcs_[g][j])
    ELSE MulExp(LevelAfter(g, j, i - 1),
                RAdd(next_[g].value[j].drift[i], next_[g].value[j].diffusion[i]))

\* C1: whenever next() has returned, the state has numAssets paths, every
\* drift and diffusion array has numSteps entries, and the weight is the
\* weight of the sequence the source handed out during that call.
C1_ReturnedShapeAndWeight ==
    \A g \in Gens :
        Returned(g) =>
            /\ Len(next_[g].value) = ctorArgs[g].rows
            /\ \A j \in 1..Len(next_[g].value) :
                  /\ Len(next_[g].value[j].drift) = NumSteps(g)
                  /\ Len(next_[g].value[j].diffusion) = NumSteps(g)
            /\ generator_[g].pos = Len(ops[g])
            /\ next_[g].weight = Drawn(g, Len(ops[g])).weight

C1_Witness ==
    /\ Returned(1)
    /\ numAssets_[1] = 2
    /\ NumSteps(1) = 1
    /\ Len(ops[1]) = 2

\* C2: construction fails exactly when the source's dimension differs from
\* numAssets * numSteps, or the drift vector's length or the factor's column
\* count differs from numAssets, or the grid has fewer than two points; a
\* generator whose construction failed never produces a path.
C2_ConstructionFailsExactlyOnBadInput ==
    \A g \in Gens :
        status[g] # "unbuilt" =>
            LET a == ctorArgs[g]
                bad == \/ a.dimension # a.rows * (Len(a.times) - 1)
                       \/ Len(a.drifts) # a.rows
                       \/ a.columns # a.rows
                       \/ Len(a.times) < 2
            IN /\ (status[g] = "failed") <=> bad
               /\ status[g] = "failed" =>
                     /\ error[g] # ""
                     /\ ops[g] = <<>>
                     /\ next_[g].value = <<>>
                     /\ generator_[g].pos = 0

\* The grid is empty and the dimension is the wrapped numAssets * (0 - 1):
\* the first three checks pass and the last one rejects.
C2_Witness ==
    /\ status[1] = "failed"
    /\ error[1] = "times"
    /\ Len(ctorArgs[1].times) = 0
    /\ ctorArgs[1].rows = 1

\* The sum of the squares of a whole row of the factor.
RECURSIVE RowSq(_, _)
RowSq(row, c) == IF c = 0 THEN 0 ELSE row[c] * row[c] + RowSq(row, c - 1)

\* (S * block i)[k] over the Euclidean norm of the whole row k of S.
RowNormalized(g, i) ==
    LET n == numAssets_[g]
        m == sqrtCovariance_[g]
        block == [k \in 1..n |-> sequence_[g].value[i * n + k]]
    IN [k \in 1..n |->
           RDiv(R(RowDot(m.data[k], block, n)), R(Sqrt(RowSq(m.data[k], n))))]

\* C3: in every step, every component k of the shock is (S * block)[k]
\* divided by the norm of the whole row k of S.  Stated for the calls that
\* stay within bounds.
C3_EveryShockRowNormalized ==
    \A g \in Gens :
        (InCall(g) /\ oob[g] = {}) =>
            \A i \in 1..Len(shocks[g]) : shocks[g][i] = RowNormalized(g, i - 1)

\* C4: no call divides a shock by a row norm that is zero.  Stated for the
\* calls that stay within bounds.
C4_NoDivisionByZeroNorm ==
    \A g \in Gens : oob[g] = {} => divZero[g] = {}

\* The shock vector the code forms in step i (from 0) of this call.
CodeShock(g, i) == Normalized(g, Rotated(g, SizeMul(i, numAssets_[g])))

\* The increments of step i (from 0) of asset j follow the recurrence.
StepFollowsRecurrence(g, j, i) ==
    LET p == diffusionProcs_[g][j]
        t == At(ctorArgs[g].times, i + 1)
        dt == Dt(ctorArgs[g].times, i)
        x == LevelAfter(g, j, i)
    IN /\ next_[g].value[j].drift[i + 1] = R(dt * Drift(p, t, x))
       /\ next_[g].value[j].diffusion[i + 1] =
             RNeg(RMul(shocks[g][i + 1][j], R(Sqrt(Variance(p, t, x, dt)))))

\* C5: antithetic() is next(): the call draws one new sequence from the
\* source, advancing it by one, works on that sequence and not on the mirror
\* of the last one, sets the weight from it, builds the path from it as
\* next() does, and the sample carries no field beyond value and weight.
C5_AntitheticIsNext ==
    \A g \in Gens :
        (InCall(g) /\ LastOp(g) = "antithetic") =>
            /\ generator_[g].pos = Len(ops[g])
            /\ sequence_[g] = Drawn(g, Len(ops[g]))
            /\ next_[g].weight = sequence_[g].weight
            /\ DOMAIN next_[g] = {"value", "weight"}
            /\ \A i \in 1..Len(shocks[g]) : shocks[g][i] = CodeShock(g, i - 1)
            /\ status[g] = "idle" =>
                  /\ Len(shocks[g]) = LoopBound(g)
                  /\ \A j \in Modelled(g) : \A i \in 0..(NumSteps(g) - 1) :
                        StepFollowsRecurrence(g, j, i)

C5_Witness ==
    /\ status[1] = "idle"
    /\ ops[1] = <<"next", "antithetic">>
    /\ numAssets_[1] = 2
    /\ Len(diffusionProcs_[1]) = 2
    /\ NumSteps(1) = 2
    /\ sequence_[1].value[1] # 0

\* C6: two generators built from identical arguments and identically seeded
\* sources, driven by the same calls, hand out identical samples.  Stated for
\* generators that were given a diffusion process for every asset.
C6_SameCallsSameSamples ==
    (/\ Returned(1) /\ Returned(2) /\ ops[1] = ops[2]
     /\ Len(diffusionProcs_[1]) >= numAssets_[1])
        => next_[1] = next_[2]

\* C7: every working level starts at x0 in every call; step i evaluates drift
\* and variance at timeGrid[i+1], dt(i) and the level reached after steps
\* 0..i-1 of the same call, and the level then moves by exp(drift+diffusion).
C7_StateDependentRecurrence ==
    \A g \in Gens :
        InCall(g) =>
            \A j \in Modelled(g) :
                /\ asset[g][j] = LevelAfter(g, j, loopI[g])
                /\ \A i \in 0..(loopI[g] - 1) : StepFollowsRecurrence(g, j, i)

\* A local process whose level has moved above 1 before the second step.
C7_Witness ==
    /\ Returned(1)
    /\ Len(ops[1]) = 2
    /\ NumSteps(1) = 2
    /\ oob[1] = {}
    /\ \E j \in Modelled(1) :
          /\ diffusionProcs_[1][j] = "local"
          /\ RPos(LevelAfter(1, j, 1))
          /\ ~RPos(LevelAfter(1, j, 0))

\* C8: a call draws one sequence; step i reads exactly the entries
\* i*numAssets .. (i+1)*numAssets - 1 of it, all below numAssets*numSteps, the
\* blocks of different steps are disjoint and together they are the sequence.
C8_BlocksPartitionTheDraw ==
    \A g \in Gens :
        InCall(g) =>
            LET n == numAssets_[g] IN
            /\ generator_[g].pos = Len(ops[g])
            /\ Len(sequence_[g].value) = generator_[g].dimension
            /\ Len(reads[g]) = loopI[g]
            /\ \A i \in 1..Len(reads[g]) :
                  /\ reads[g][i] = ((i - 1) * n)..(i * n - 1)
                  /\ \A x \in reads[g][i] : x < n * NumSteps(g)
            /\ \A i1, i2 \in 1..Len(reads[g]) :
                  i1 # i2 => reads[g][i1] \cap reads[g][i2] = {}
            /\ status[g] = "idle" =>
                  UNION {reads[g][i] : i \in 1..Len(reads[g])}
                      = 0..(Len(sequence_[g].value) - 1)

C8_Witness ==
    /\ Returned(1)
    /\ numAssets_[1] = 3
    /\ NumSteps(1) = 2
    /\ Len(reads[1]) = 2
    /\ Len(ops[1]) = 2

\* Every entry of the buffer.
AllEntries(g) ==
    {<<"weight", 0, 0>>}
    \cup {<<"drift", j, i>> : j \in 1..numAssets_[g], i \in 0..(NumSteps(g) - 1)}
    \cup {<<"diffusion", j, i>> : j \in 1..numAssets_[g], i \in 0..(NumSteps(g) - 1)}

\* C9: after construction and before the first call drift[j][i] is
\* drifts[j] * dt(i); a call that has returned has written the weight and
\* every drift and diffusion entry of the one buffer next_.
C9_BufferFullyOverwritten ==
    \A g \in Gens :
        /\ (status[g] = "idle" /\ ops[g] = <<>>) =>
              \A j \in 1..numAssets_[g] : \A i \in 0..(NumSteps(g) - 1) :
                  next_[g].value[j].drift[i + 1]
                      = R(ctorArgs[g].drifts[j] * Dt(ctorArgs[g].times, i))
        /\ Returned(g) => written[g] = AllEntries(g)

C9_Witness ==
    /\ Returned(1)
    /\ Len(ops[1]) = 2
    /\ numAssets_[1] = 2
    /\ NumSteps(1) = 2
    /\ \E j \in 1..2 : \E i \in 1..2 :
          next_[1].value[j].drift[i] # R(ctorArgs[1].drifts[j] * Dt(ctorArgs[1].times, i - 1))

\* C10: every indexed access of next() on a constructed generator is within
\* bounds.  Stated for generators with at least one asset that were given a
\* diffusion process for every asset.
C10_AccessesWithinBounds ==
    \A g \in Gens :
        (numAssets_[g] >= 1 /\ Len(diffusionProcs_[g]) >= numAssets_[g]) => oob[g] = {}

====
